---- MODULE Spec2Model ----
(***************************************************************************)
(* State-machine model of the ABRP telemetry plugins of OVMS:              *)
(*   plugin/abrp/sendlivedata2abrp.js  (version 2.0, "sendlivedata2abrp")  *)
(*   abrp2.js                          (the abrp2 variant, "abrp2")        *)
(*   plugin/abrp/abrp.js               (the first rewrite, "abrp")         *)
(*   plugin/slack/slack.js             (telemetry to a Slack hook, "slack")*)
(* One of the scripts is loaded by ovmsmain.js; the host delivers          *)
(* vehicle.on, vehicle.off and ticker.60 events one at a time and the      *)
(* user evaluates the exported functions from the script console.          *)
(***************************************************************************)
EXTENDS Integers, Sequences, FiniteSets, TLC

VARIABLES
    plugin,                 \* which script ovmsmain.js has loaded
    vehicleOnSubscription,  \* module globals of the loaded script
    vehicleOffSubscription,
    tickerSubscription,
    currentTelemetry,
    configuration,          \* named config in abrp2.js
    bus,                    \* PubSub: the live subscriptions
    store,                  \* OvmsConfig: the values under usr / abrp.
    pending,                \* HTTP: requests whose callback is still due
    route,                  \* history: the last of startRoute / endRoute that ran
    auto,                   \* history: the last of enable / disable that ran
    failed,                 \* history: an HTTP callback has reported a failure
                            \*   and no tick has come since
    last                    \* history: what the last operation did

vars == <<plugin, vehicleOnSubscription, vehicleOffSubscription, tickerSubscription,
          currentTelemetry, configuration, bus, store, pending, route, auto, failed, last>>

----------------------------------------------------------------------------
(* Bounds of the model *)

MaxLive == 4        \* subscriptions live on the bus at the same time
MaxPending == 1     \* HTTP requests in flight at the same time

----------------------------------------------------------------------------
(* JavaScript null, and the handles PubSub returns (truthy) *)

Null == [null |-> TRUE]

Token(n) == [uid |-> n]

Plugins == {"sendlivedata2abrp", "abrp2"}

V2 == plugin = "sendlivedata2abrp"

A2 == plugin = "abrp2"

----------------------------------------------------------------------------
(* Constants of the scripts *)

defaultConfiguration ==
    [url |-> "http://api.iternio.com/1/tlm/send",
     car_model |-> "@@:@@:@@:@@:@@",
     user_token |-> "@@@@@@@@-@@@@-@@@@-@@@@-@@@@@@@@@@@@"]

OVMS_API_KEY == "32b2162f-9599-4647-8139-66e9f9528370"

topics == [VehicleOn |-> "vehicle.on", VehicleOff |-> "vehicle.off", Ticker |-> "ticker.60"]

telemetryChangedIndicators ==
    <<"soc", "soh", "lat", "lon", "alt", "is_charging", "batt_temp", "ext_temp">>

keys == <<"soc", "soh", "lat", "lon", "alt", "is_charging", "batt_temp", "ext_temp">>

\* every key of a telemetry record; the ones the change test does not look at
TelemetryFields ==
    {"utc", "soc", "soh", "speed", "car_model", "lat", "lon", "alt", "ext_temp",
     "is_charging", "batt_temp", "voltage", "current", "power"}

Range(seq) == {seq[i] : i \in 1..Len(seq)}

Watched == Range(telemetryChangedIndicators)

Unwatched == TelemetryFields \ Watched

----------------------------------------------------------------------------
(* The host: metric readings, the clock, the config store                  *)
(*   soc in 1/10 %, lat and lon in 1/10000 degree, alt in 1/100 m,         *)
(*   power in 1/100 kW, now in ms; the other metrics in whole units.       *)

BaseReading ==
    [state |-> "idle", soc |-> 504, soh |-> 95, speed |-> 0,
     lat |-> 377712, lon |-> 1224194, alt |-> 1234, etemp |-> 20, btemp |-> 25,
     voltage |-> 360, current |-> 0, power |-> 0, now |-> 60500]

Readings ==
    { BaseReading,
      [BaseReading EXCEPT !.soc = 514],
      [BaseReading EXCEPT !.soc = 508],          \* same percent as 504
      [BaseReading EXCEPT !.soc = 4],            \* battery empty
      [BaseReading EXCEPT !.soh = 94],
      [BaseReading EXCEPT !.lat = 377725],
      [BaseReading EXCEPT !.lon = 1224206],
      [BaseReading EXCEPT !.alt = 1246],
      [BaseReading EXCEPT !.state = "charging"],
      [BaseReading EXCEPT !.state = "topoff"],
      [BaseReading EXCEPT !.btemp = 26],
      [BaseReading EXCEPT !.etemp = 21],
      [BaseReading EXCEPT !.speed = 30],
      [BaseReading EXCEPT !.voltage = 358, !.current = 12, !.power = 432, !.now = 120500],
      [BaseReading EXCEPT !.soc = 4, !.soh = 0]   \* canbus not readable
    }

\* a metric read that throws
Unavailable == [unavailable |-> TRUE]

MetricReads == Readings \cup {Unavailable}

\* the readings the route life cycle is explored with
RouteReads ==
    { BaseReading,
      [BaseReading EXCEPT !.soc = 514],
      [BaseReading EXCEPT !.soc = 4, !.soh = 0],
      Unavailable }

\* OvmsConfig.GetValues('usr', 'abrp.'): a mapping that may lack keys
EmptyStore == [k \in {} |-> ""]

Stores ==
    { EmptyStore,
      [car_model |-> "nissan:leaf:19:40", user_token |-> "token-1"] }

HttpStatusCodes == {200, 500}

----------------------------------------------------------------------------
(* Number formatting of the sampler *)

\* Math.floor(Number(x)) of a metric given in 1/10
Floor10(x) == x \div 10

\* Number(x).toFixed(d) of a metric given with one more decimal than d
ToFixed(x) == (x + 5) \div 10

\* Math.trunc(Date.now() / 1000)
Utc(now) == now \div 1000

----------------------------------------------------------------------------
(* What an operation works on: the module globals, the bus, and a log of   *)
(* what it did (requests issued, notifications raised, subscribe and       *)
(* unsubscribe calls, functions entered, v.c.state as read and whether a   *)
(* metric read threw, the sample captured, reads of the config store, the  *)
(* status handed to a done callback, an exception that left the operation). *)

World ==
    [vehicleOnSubscription |-> vehicleOnSubscription,
     vehicleOffSubscription |-> vehicleOffSubscription,
     tickerSubscription |-> tickerSubscription,
     currentTelemetry |-> currentTelemetry,
     configuration |-> configuration,
     bus |-> bus,
     pending |-> pending,
     route |-> route,
     auto |-> auto,
     failed |-> failed,
     http |-> <<>>,
     notes |-> <<>>,
     subscribed |-> 0,
     unsubscribed |-> 0,
     calls |-> <<>>,
     chargeState |-> "",
     readFailed |-> FALSE,
     tel |-> Null,
     loaded |-> 0,
     status |-> 0,
     threw |-> FALSE]

\* OvmsNotify.Raise(severity, 'usr.abrp.status', message)
Raise(w, severity, message) ==
    [w EXCEPT !.notes = Append(@, [severity |-> severity, message |-> message])]

\* The handle the next PubSub.subscribe returns.  PubSub never returns a
\* handle twice; a handle that is neither on the bus nor held by the script
\* can no longer be told from a new one, so the smallest such uid stands for it.
HandlesInUse(w) ==
    {s.token : s \in w.bus}
        \cup ({w.vehicleOnSubscription, w.vehicleOffSubscription, w.tickerSubscription} \ {Null})

FreshToken(w) ==
    Token(CHOOSE n \in 1..(Cardinality(HandlesInUse(w)) + 1) :
            /\ Token(n) \notin HandlesInUse(w)
            /\ \A m \in 1..(n - 1) : Token(m) \in HandlesInUse(w))

\* PubSub.subscribe(topic, handler), which returns FreshToken(w)
Subscribe(w, topic, handler) ==
    [w EXCEPT !.bus = @ \cup {[token |-> FreshToken(w), topic |-> topic, handler |-> handler]},
              !.subscribed = @ + 1]

\* PubSub.unsubscribe(handle)
Unsubscribe(w, handle) ==
    [w EXCEPT !.bus = {s \in @ : s.token # handle},
              !.unsubscribed = @ + 1]

Entered(w, fn) == [w EXCEPT !.calls = Append(@, fn)]

----------------------------------------------------------------------------
(* plugin/abrp/sendlivedata2abrp.js *)

handleError(w, context) == Raise(w, "error", context)

\* Object.assign({}, target, source)
ObjectAssign(target, source) ==
    [k \in DOMAIN target \cup DOMAIN source |->
        IF k \in DOMAIN source THEN source[k] ELSE target[k]]

\* mutant: the stored values are taken as they are, without the defaults
loadConfig_noDefaults(w) ==
    IF w.configuration = Null
    THEN [w EXCEPT !.configuration =
             [k \in DOMAIN defaultConfiguration |->
                 IF k \in DOMAIN store THEN store[k] ELSE "undefined"],
                   !.loaded = @ + 1]
    ELSE w

loadConfig(w) ==
    IF w.configuration = Null
    THEN [w EXCEPT !.configuration = ObjectAssign(defaultConfiguration, store),
                   !.loaded = @ + 1]
    ELSE w

unloadConfig(w) == [w EXCEPT !.configuration = Null]

\* HTTP.Request({url, done, fail}): returns at once, the callback comes later
HttpRequest(w, request) == [w EXCEPT !.http = Append(@, request), !.pending = @ + 1]

updateAbrp(w, telemetry) ==
    LET c == loadConfig(w)
        config == c.configuration
    IN  HttpRequest(c, [url |-> config.url, api_key |-> OVMS_API_KEY,
                        token |-> config.user_token, tlm |-> telemetry])

\* mutant: topoff is not taken for charging
isCharging_noTopoff(state) == IF state = "charging" THEN 1 ELSE 0

isCharging(state) == IF state = "charging" \/ state = "topoff" THEN 1 ELSE 0

\* the record getTelemetry returns from the metrics r, given the loaded config
Telemetry(car_model, r) ==
    [utc |-> Utc(r.now),
     soc |-> Floor10(r.soc),
     soh |-> r.soh,
     speed |-> r.speed,
     car_model |-> car_model,
     lat |-> ToFixed(r.lat),
     lon |-> ToFixed(r.lon),
     alt |-> ToFixed(r.alt),
     ext_temp |-> r.etemp,
     is_charging |-> isCharging(r.state),
     batt_temp |-> r.btemp,
     voltage |-> r.voltage,
     current |-> r.current,
     power |-> ToFixed(r.power)]

\* loads the config first; w.tel is the value returned, w.threw a metric read that threw
getTelemetry(w, r) ==
    LET c == loadConfig(w)
    IN  IF r = Unavailable
        THEN [c EXCEPT !.threw = TRUE, !.readFailed = TRUE]
        ELSE [c EXCEPT !.tel = Telemetry(c.configuration.car_model, r), !.chargeState = r.state]


\* mutant: the comparison of the indicators is lost
isTelemetryValidAndHasChanged_noCompare(previousTelemetry, nextTelemetry) ==
    nextTelemetry.soh + nextTelemetry.soc # 0

\* mutant: the canbus guard is lost
isTelemetryValidAndHasChanged_noGuard(previousTelemetry, nextTelemetry) ==
    \E i \in 1..Len(telemetryChangedIndicators) :
        previousTelemetry[telemetryChangedIndicators[i]]
            # nextTelemetry[telemetryChangedIndicators[i]]

\* mutant: every key of the record is compared
isTelemetryValidAndHasChanged_allFields(previousTelemetry, nextTelemetry) ==
    IF nextTelemetry.soh + nextTelemetry.soc = 0
    THEN FALSE
    ELSE \E f \in TelemetryFields : previousTelemetry[f] # nextTelemetry[f]

\* mutant: the last indicator is never looked at
isTelemetryValidAndHasChanged_shortLoop(previousTelemetry, nextTelemetry) ==
    IF nextTelemetry.soh + nextTelemetry.soc = 0
    THEN FALSE
    ELSE \E i \in 1..(Len(telemetryChangedIndicators) - 1) :
            previousTelemetry[telemetryChangedIndicators[i]]
                # nextTelemetry[telemetryChangedIndicators[i]]

isTelemetryValidAndHasChanged(previousTelemetry, nextTelemetry) ==
    IF nextTelemetry.soh + nextTelemetry.soc = 0
    THEN FALSE
    ELSE \E i \in 1..Len(telemetryChangedIndicators) :
            previousTelemetry[telemetryChangedIndicators[i]]
                # nextTelemetry[telemetryChangedIndicators[i]]


\* mutant: the first sample goes through the change test's canbus guard
sendTelemetry_guardsFirst(w, forceAbrpUpdate, r) ==
    LET g == getTelemetry(Entered(w, "sendTelemetry"), r)
    IN  IF g.threw
        THEN handleError([g EXCEPT !.threw = FALSE], "Send telemetry")
        ELSE IF \/ forceAbrpUpdate
                \/ /\ g.currentTelemetry = Null
                   /\ g.tel.soh + g.tel.soc # 0
                \/ /\ g.currentTelemetry # Null
                   /\ isTelemetryValidAndHasChanged(g.currentTelemetry, g.tel)
             THEN updateAbrp([g EXCEPT !.currentTelemetry = g.tel], g.tel)
             ELSE g

\* mutant: forceAbrpUpdate is not looked at
sendTelemetry_ignoresForce(w, forceAbrpUpdate, r) ==
    LET g == getTelemetry(Entered(w, "sendTelemetry"), r)
    IN  IF g.threw
        THEN handleError([g EXCEPT !.threw = FALSE], "Send telemetry")
        ELSE IF \/ g.currentTelemetry = Null
                \/ isTelemetryValidAndHasChanged(g.currentTelemetry, g.tel)
             THEN updateAbrp([g EXCEPT !.currentTelemetry = g.tel], g.tel)
             ELSE g

\* mutant: no try / catch around the sample-and-send cycle
sendTelemetry_noCatch(w, forceAbrpUpdate, r) ==
    LET g == getTelemetry(Entered(w, "sendTelemetry"), r)
    IN  IF g.threw
        THEN g
        ELSE IF \/ g.currentTelemetry = Null
                \/ forceAbrpUpdate
                \/ isTelemetryValidAndHasChanged(g.currentTelemetry, g.tel)
             THEN updateAbrp([g EXCEPT !.currentTelemetry = g.tel], g.tel)
             ELSE g

\* mutant: the sample is committed whether or not it is sent
sendTelemetry_commitsAlways(w, forceAbrpUpdate, r) ==
    LET g == getTelemetry(Entered(w, "sendTelemetry"), r)
    IN  IF g.threw
        THEN handleError([g EXCEPT !.threw = FALSE], "Send telemetry")
        ELSE IF \/ g.currentTelemetry = Null
                \/ forceAbrpUpdate
                \/ isTelemetryValidAndHasChanged(g.currentTelemetry, g.tel)
             THEN updateAbrp([g EXCEPT !.currentTelemetry = g.tel], g.tel)
             ELSE [g EXCEPT !.currentTelemetry = g.tel]

sendTelemetry(w, forceAbrpUpdate, r) ==
    LET g == getTelemetry(Entered(w, "sendTelemetry"), r)
    IN  IF g.threw
        THEN handleError([g EXCEPT !.threw = FALSE], "Send telemetry")
        ELSE IF \/ g.currentTelemetry = Null
                \/ forceAbrpUpdate
                \/ isTelemetryValidAndHasChanged(g.currentTelemetry, g.tel)
             THEN updateAbrp([g EXCEPT !.currentTelemetry = g.tel], g.tel)
             ELSE g


\* mutant: the ticker is subscribed to without looking at tickerSubscription
startRoute_resubscribes(w, r) ==
    LET u == unloadConfig([Entered(w, "startRoute") EXCEPT !.route = "started"])
        t == sendTelemetry(u, TRUE, r)
        s == [Subscribe(t, topics.Ticker, "onTicker")
                 EXCEPT !.tickerSubscription = FreshToken(t)]
    IN  Raise(s, "info", "ABRP route started")

\* mutant: on an active route only the config is dropped
startRoute_skipsSend(w, r) ==
    LET u == unloadConfig([Entered(w, "startRoute") EXCEPT !.route = "started"])
        t == IF u.tickerSubscription = Null THEN sendTelemetry(u, TRUE, r) ELSE u
        s == IF t.tickerSubscription = Null
             THEN [Subscribe(t, topics.Ticker, "onTicker")
                      EXCEPT !.tickerSubscription = FreshToken(t)]
             ELSE t
    IN  Raise(s, "info", "ABRP route started")

\* mutant: the config loaded before is kept
startRoute_keepsConfig(w, r) ==
    LET u == [Entered(w, "startRoute") EXCEPT !.route = "started"]
        t == sendTelemetry(u, TRUE, r)
        s == IF t.tickerSubscription = Null
             THEN [Subscribe(t, topics.Ticker, "onTicker")
                      EXCEPT !.tickerSubscription = FreshToken(t)]
             ELSE t
    IN  Raise(s, "info", "ABRP route started")

\* mutant: the notification is raised only if sendTelemetry raised no error
startRoute_silentOnError(w, r) ==
    LET u == unloadConfig([Entered(w, "startRoute") EXCEPT !.route = "started"])
        t == sendTelemetry(u, TRUE, r)
        s == IF t.tickerSubscription = Null
             THEN [Subscribe(t, topics.Ticker, "onTicker")
                      EXCEPT !.tickerSubscription = FreshToken(t)]
             ELSE t
    IN  IF t.readFailed THEN s ELSE Raise(s, "info", "ABRP route started")

startRoute(w, r) ==
    LET u == unloadConfig([Entered(w, "startRoute") EXCEPT !.route = "started"])
        t == sendTelemetry(u, TRUE, r)
        s == IF t.tickerSubscription = Null
             THEN [Subscribe(t, topics.Ticker, "onTicker")
                      EXCEPT !.tickerSubscription = FreshToken(t)]
             ELSE t
    IN  Raise(s, "info", "ABRP route started")


\* mutant: the handle is dropped without PubSub.unsubscribe
endRoute_keepsTicker(w) ==
    LET u == [unloadConfig([Entered(w, "endRoute") EXCEPT !.route = "ended"])
                 EXCEPT !.currentTelemetry = Null]
        s == [u EXCEPT !.tickerSubscription = Null]
    IN  Raise(s, "info", "ABRP route ended")

\* mutant: PubSub.unsubscribe is called whether or not a handle is held
endRoute_alwaysUnsubscribes(w) ==
    LET u == [unloadConfig([Entered(w, "endRoute") EXCEPT !.route = "ended"])
                 EXCEPT !.currentTelemetry = Null]
        s == [Unsubscribe(u, u.tickerSubscription) EXCEPT !.tickerSubscription = Null]
    IN  Raise(s, "info", "ABRP route ended")

endRoute(w) ==
    LET u == [unloadConfig([Entered(w, "endRoute") EXCEPT !.route = "ended"])
                 EXCEPT !.currentTelemetry = Null]
        s == IF u.tickerSubscription # Null
             THEN [Unsubscribe(u, u.tickerSubscription) EXCEPT !.tickerSubscription = Null]
             ELSE u
    IN  Raise(s, "info", "ABRP route ended")

onetime(w, r) == sendTelemetry(w, TRUE, r)

\* a metric read that throws here is not caught: it leaves info()
info(w, r) == getTelemetry(unloadConfig(w), r)

send(w, start, r) == IF start THEN startRoute(w, r) ELSE endRoute(w)


\* mutant: vehicle.on is subscribed to without looking at vehicleOnSubscription
autoSend_resubscribes(w, enable) ==
    IF enable
    THEN LET a == [w EXCEPT !.auto = "enabled"]
             n == [Subscribe(a, topics.VehicleOn, "onVehicleOn")
                      EXCEPT !.vehicleOnSubscription = FreshToken(a)]
         IN  IF n.vehicleOffSubscription = Null
             THEN [Subscribe(n, topics.VehicleOff, "onVehicleOff")
                      EXCEPT !.vehicleOffSubscription = FreshToken(n)]
             ELSE n
    ELSE LET a == [w EXCEPT !.auto = "disabled"]
             n == IF a.vehicleOnSubscription # Null
                  THEN [Unsubscribe(a, a.vehicleOnSubscription)
                           EXCEPT !.vehicleOnSubscription = Null]
                  ELSE a
         IN  IF n.vehicleOffSubscription # Null
             THEN [Unsubscribe(n, n.vehicleOffSubscription)
                      EXCEPT !.vehicleOffSubscription = Null]
             ELSE n

\* mutant: disabling leaves vehicle.off subscribed
autoSend_leavesOff(w, enable) ==
    IF enable
    THEN LET a == [w EXCEPT !.auto = "enabled"]
             n == IF a.vehicleOnSubscription = Null
                  THEN [Subscribe(a, topics.VehicleOn, "onVehicleOn")
                           EXCEPT !.vehicleOnSubscription = FreshToken(a)]
                  ELSE a
         IN  IF n.vehicleOffSubscription = Null
             THEN [Subscribe(n, topics.VehicleOff, "onVehicleOff")
                      EXCEPT !.vehicleOffSubscription = FreshToken(n)]
             ELSE n
    ELSE LET a == [w EXCEPT !.auto = "disabled"]
         IN  IF a.vehicleOnSubscription # Null
             THEN [Unsubscribe(a, a.vehicleOnSubscription)
                      EXCEPT !.vehicleOnSubscription = Null]
             ELSE a

\* mutant: disabling the trigger ends the route as well
autoSend_endsRoute(w, enable) ==
    IF enable
    THEN LET a == [w EXCEPT !.auto = "enabled"]
             n == IF a.vehicleOnSubscription = Null
                  THEN [Subscribe(a, topics.VehicleOn, "onVehicleOn")
                           EXCEPT !.vehicleOnSubscription = FreshToken(a)]
                  ELSE a
         IN  IF n.vehicleOffSubscription = Null
             THEN [Subscribe(n, topics.VehicleOff, "onVehicleOff")
                      EXCEPT !.vehicleOffSubscription = FreshToken(n)]
             ELSE n
    ELSE LET a == [w EXCEPT !.auto = "disabled"]
             n == IF a.vehicleOnSubscription # Null
                  THEN [Unsubscribe(a, a.vehicleOnSubscription)
                           EXCEPT !.vehicleOnSubscription = Null]
                  ELSE a
             f == IF n.vehicleOffSubscription # Null
                  THEN [Unsubscribe(n, n.vehicleOffSubscription)
                           EXCEPT !.vehicleOffSubscription = Null]
                  ELSE n
         IN  endRoute(f)

autoSend(w, enable) ==
    IF enable
    THEN LET a == [w EXCEPT !.auto = "enabled"]
             n == IF a.vehicleOnSubscription = Null
                  THEN [Subscribe(a, topics.VehicleOn, "onVehicleOn")
                           EXCEPT !.vehicleOnSubscription = FreshToken(a)]
                  ELSE a
         IN  IF n.vehicleOffSubscription = Null
             THEN [Subscribe(n, topics.VehicleOff, "onVehicleOff")
                      EXCEPT !.vehicleOffSubscription = FreshToken(n)]
             ELSE n
    ELSE LET a == [w EXCEPT !.auto = "disabled"]
             n == IF a.vehicleOnSubscription # Null
                  THEN [Unsubscribe(a, a.vehicleOnSubscription)
                           EXCEPT !.vehicleOnSubscription = Null]
                  ELSE a
         IN  IF n.vehicleOffSubscription # Null
             THEN [Unsubscribe(n, n.vehicleOffSubscription)
                      EXCEPT !.vehicleOffSubscription = Null]
             ELSE n

\* the anonymous functions autoSend subscribes to vehicle.on and vehicle.off
onVehicleOn(w, r) == startRoute(Raise(w, "info", "Vehicle on - starting route"), r)

onVehicleOff(w) == endRoute(Raise(w, "info", "Vehicle off - ending route"))

\* the done and fail callbacks of updateAbrp
httpDone(w, statusCode) ==
    IF statusCode # 200
    THEN handleError([w EXCEPT !.status = statusCode, !.failed = TRUE], "Http request")
    ELSE [w EXCEPT !.status = statusCode, !.failed = FALSE]

\* mutant: a failed request ends the route
httpFail_endsRoute(w) == endRoute(handleError([w EXCEPT !.failed = TRUE], "HTTP request"))

\* mutant: a failed request takes the ticker subscription off the bus
httpFail_stopsTicker(w) ==
    handleError([Unsubscribe(w, w.tickerSubscription) EXCEPT !.failed = TRUE], "HTTP request")

httpFail(w) == handleError([w EXCEPT !.failed = TRUE], "HTTP request")

----------------------------------------------------------------------------
(* abrp2.js *)

\* values.key of a mapping that may lack the key
Get(values, key) == IF key \in DOMAIN values THEN values[key] ELSE "undefined"

abrp2_loadConfig(w) ==
    LET values == store
        v == [w EXCEPT !.loaded = @ + 1]
    IN  IF v.configuration = Null
        THEN [v EXCEPT !.configuration =
                 [url |-> Get(values, "url"),
                  userToken |-> Get(values, "user_token"),
                  carModel |-> Get(values, "car_model")]]
        ELSE v

abrp2_updateAbrp(w, telemetry) ==
    HttpRequest(w, [url |-> w.configuration.url, api_key |-> OVMS_API_KEY,
                    token |-> w.configuration.userToken, tlm |-> telemetry])

\* w.tel is the value returned, w.threw a metric read that threw
captureTelemetry(w, r) ==
    IF r = Unavailable
    THEN [w EXCEPT !.threw = TRUE, !.readFailed = TRUE]
    ELSE [w EXCEPT !.tel = Telemetry("fixme leaf", r), !.chargeState = r.state]

telemetryIsValidAndHasChanged(previous, next) ==
    IF next.soh + next.soc = 0
    THEN FALSE
    ELSE \E i \in 1..Len(keys) : previous[keys[i]] # next[keys[i]]

abrp2_sendTelemetry(w, forceUpdate, r) ==
    LET g == captureTelemetry(abrp2_loadConfig(Entered(w, "sendTelemetry")), r)
    IN  IF g.threw
        THEN handleError([g EXCEPT !.threw = FALSE], "Send telemetry")
        ELSE IF \/ g.currentTelemetry = Null
                \/ forceUpdate
                \/ telemetryIsValidAndHasChanged(g.currentTelemetry, g.tel)
             THEN abrp2_updateAbrp([g EXCEPT !.currentTelemetry = g.tel], g.tel)
             ELSE g

onTicker(w, r) == abrp2_sendTelemetry(w, FALSE, r)

abrp2_startRoute(w) ==
    LET u == [Entered(w, "startRoute") EXCEPT !.route = "started",
                                               !.currentTelemetry = Null,
                                               !.configuration = Null]
        s == [Subscribe(u, topics.Ticker, "onTicker")
                 EXCEPT !.tickerSubscription = FreshToken(u)]
    IN  Raise(s, "info", "ABRP route started")

abrp2_endRoute(w) ==
    LET u == [Entered(w, "endRoute") EXCEPT !.route = "ended",
                                             !.currentTelemetry = Null,
                                             !.configuration = Null]
        s == IF u.tickerSubscription # Null
             THEN [Unsubscribe(u, u.tickerSubscription) EXCEPT !.tickerSubscription = Null]
             ELSE u
    IN  Raise(s, "info", "ABRP route ended")

enableSendBetweenVehicleOnAndOff(w) ==
    LET a == [w EXCEPT !.auto = "enabled"]
        n == IF a.vehicleOnSubscription = Null
             THEN [Subscribe(a, topics.VehicleOn, "onVehicleOn")
                      EXCEPT !.vehicleOnSubscription = FreshToken(a)]
             ELSE a
    IN  IF n.vehicleOffSubscription = Null
        THEN [Subscribe(n, topics.VehicleOff, "onVehicleOff")
                 EXCEPT !.vehicleOffSubscription = FreshToken(n)]
        ELSE n

disableSendBetweenVehicleOnAndOff(w) ==
    LET a == [w EXCEPT !.auto = "disabled"]
        n == IF a.vehicleOnSubscription # Null
             THEN [Unsubscribe(a, a.vehicleOnSubscription)
                      EXCEPT !.vehicleOnSubscription = Null]
             ELSE a
    IN  IF n.vehicleOffSubscription # Null
        THEN [Unsubscribe(n, n.vehicleOffSubscription)
                 EXCEPT !.vehicleOffSubscription = Null]
        ELSE n

\* a metric read that throws here is not caught
showTelemetry(w, r) == captureTelemetry(w, r)

abrp2_httpDone(w, statusCode) == [w EXCEPT !.status = statusCode, !.failed = FALSE]

abrp2_httpFail(w) == handleError([w EXCEPT !.failed = TRUE], "HTTP request")

----------------------------------------------------------------------------
(* plugin/abrp/abrp.js: the module globals, loadConfig, captureTelemetry,  *)
(* telemetryIsValidAndHasChanged and enable / disable read as in abrp2.js  *)

ABRP == plugin = "abrp"

abrp_loadConfig(w) ==
    LET values == store
        v == [w EXCEPT !.loaded = @ + 1]
    IN  IF v.configuration = Null
        THEN [v EXCEPT !.configuration =
                 [url |-> Get(values, "url"),
                  userToken |-> Get(values, "user_token"),
                  carModel |-> Get(values, "car_model")]]
        ELSE v

\* config.url of a null config is a TypeError, thrown before HTTP.Request
abrp_send(w, telemetry) ==
    IF w.configuration = Null
    THEN [w EXCEPT !.threw = TRUE]
    ELSE HttpRequest(w, [url |-> w.configuration.url, api_key |-> OVMS_API_KEY,
                         token |-> w.configuration.userToken, tlm |-> telemetry])

abrp_captureTelemetry(w, r) ==
    IF r = Unavailable
    THEN [w EXCEPT !.threw = TRUE, !.readFailed = TRUE]
    ELSE [w EXCEPT !.tel = Telemetry("fixme leaf", r), !.chargeState = r.state]

abrp_sendTelemetry(w, forceUpdate, r) ==
    LET g == abrp_captureTelemetry(abrp_loadConfig(Entered(w, "sendTelemetry")), r)
        s == IF g.threw
             THEN g
             ELSE IF \/ g.currentTelemetry = Null
                     \/ forceUpdate
                     \/ telemetryIsValidAndHasChanged(g.currentTelemetry, g.tel)
                  THEN abrp_send([g EXCEPT !.currentTelemetry = g.tel], g.tel)
                  ELSE g
    IN  IF s.threw
        THEN Raise([s EXCEPT !.threw = FALSE], "error", "telemetry error")
        ELSE s

\* sendTelemetry() without an argument: forceUpdate is undefined
abrp_onTicker(w, r) == abrp_sendTelemetry(w, FALSE, r)

abrp_vehicleOn(w) ==
    LET u == [Entered(w, "vehicleOn") EXCEPT !.route = "started",
                                              !.currentTelemetry = Null,
                                              !.configuration = Null]
        s == abrp_send(u, "Vehicle turned on")
    IN  IF s.threw
        THEN Raise([s EXCEPT !.threw = FALSE], "error", "vehicle on error")
        ELSE [Subscribe(s, topics.Ticker, "onTicker")
                 EXCEPT !.tickerSubscription = FreshToken(s)]

abrp_vehicleOff(w) ==
    LET u == [Entered(w, "vehicleOff") EXCEPT !.route = "ended",
                                               !.currentTelemetry = Null,
                                               !.configuration = Null]
        s == abrp_send(u, "Vehicle turned off")
    IN  IF s.threw
        THEN Raise([s EXCEPT !.threw = FALSE], "error", "vehicle off error")
        ELSE [Unsubscribe(s, s.tickerSubscription) EXCEPT !.tickerSubscription = Null]

abrp_httpDone(w, statusCode) == [w EXCEPT !.status = statusCode, !.failed = FALSE]

abrp_httpFail(w) == Raise([w EXCEPT !.failed = TRUE], "error", "HTTP request")

----------------------------------------------------------------------------
(* plugin/slack/slack.js: the handles and enable / disable read as in      *)
(* abrp2.js; there is no currentTelemetry and no config object             *)

SLACK == plugin = "slack"

\* OvmsConfig.GetValues('usr', 'slack.url'): the instances that begin with
\* slack.url, named by what follows the prefix
GetValues(values, prefix) ==
    IF prefix \in DOMAIN values THEN [k \in {""} |-> values[prefix]] ELSE EmptyStore

\* a missing url is printed, the request goes out all the same; of the
\* message posted the text is kept
sendToSlack(w, text) ==
    HttpRequest(w, [url |-> GetValues(store, "slack.url"), post |-> [text |-> text]])

slack_isCharging(state) ==
    IF state = "charging" \/ state = "topoff"
    THEN 1
    ELSE 0

\* the text sent is one line key=value per field of the sample
slack_sendTelemetry(w, r) ==
    LET e == Entered(w, "sendTelemetry")
    IN  IF r = Unavailable
        THEN Raise([e EXCEPT !.readFailed = TRUE], "error", "telemetry error")
        ELSE LET telemetry == [Telemetry("fixme leaf", r)
                                  EXCEPT !.is_charging = slack_isCharging(r.state)]
             IN  sendToSlack([e EXCEPT !.tel = telemetry, !.chargeState = r.state],
                             telemetry)

slack_vehicleOn(w) ==
    LET u == sendToSlack([Entered(w, "vehicleOn") EXCEPT !.route = "started"],
                         "Vehicle turned on")
    IN  [Subscribe(u, topics.Ticker, "onTicker") EXCEPT !.tickerSubscription = FreshToken(u)]

\* PubSub.unsubscribe of a null handle finds nothing to remove
slack_vehicleOff(w) ==
    LET u == sendToSlack([Entered(w, "vehicleOff") EXCEPT !.route = "ended"],
                         "Vehicle turned off")
    IN  [Unsubscribe(u, u.tickerSubscription) EXCEPT !.tickerSubscription = Null]

sendTestMessage(w, r) == slack_sendTelemetry(w, r)

slack_httpDone(w, statusCode) == [w EXCEPT !.status = statusCode]

----------------------------------------------------------------------------
(* PubSub.publish: the handlers subscribed to the topic run one after the  *)
(* other, in the order they subscribed, each to completion.                *)

CallHandler(w, handler, r) ==
    CASE V2 ->
           (CASE handler = "onTicker" -> sendTelemetry(w, FALSE, r)
              [] handler = "onVehicleOn" -> onVehicleOn(w, r)
              [] handler = "onVehicleOff" -> onVehicleOff(w))
      [] A2 ->
           (CASE handler = "onTicker" -> onTicker(w, r)
              [] handler = "onVehicleOn" -> abrp2_startRoute(w)
              [] handler = "onVehicleOff" -> abrp2_endRoute(w))
      [] ABRP ->
           (CASE handler = "onTicker" -> abrp_onTicker(w, r)
              [] handler = "onVehicleOn" -> abrp_vehicleOn(w)
              [] handler = "onVehicleOff" -> abrp_vehicleOff(w))
      [] SLACK ->
           (CASE handler = "onTicker" -> slack_sendTelemetry(w, r)
              [] handler = "onVehicleOn" -> slack_vehicleOn(w)
              [] handler = "onVehicleOff" -> slack_vehicleOff(w))

Subscribers(b, topic) == {s \in b : s.topic = topic}

RECURSIVE Deliver(_, _, _)
Deliver(w, subs, r) ==
    IF subs = {}
    THEN w
    ELSE LET first == CHOOSE s \in subs : \A t \in subs : s.token.uid <= t.token.uid
         IN  Deliver(CallHandler(w, first.handler, r), subs \ {first}, r)

Publish(w, topic, r) == Deliver(w, Subscribers(w.bus, topic), r)

----------------------------------------------------------------------------
(* The state machine *)

Init ==
    /\ plugin \in Plugins
    /\ store \in Stores
    /\ vehicleOnSubscription = Null
    /\ vehicleOffSubscription = Null
    /\ tickerSubscription = Null
    /\ currentTelemetry = Null
    /\ configuration = Null
    /\ bus = {}
    /\ pending = 0
    /\ route = "none"
    /\ auto = "none"
    /\ failed = FALSE
    /\ last = [op |-> "load", prev |-> Null, afterFailure |-> FALSE,
               chargeState |-> "", readFailed |-> FALSE, tel |-> Null, loaded |-> 0,
               status |-> 0, http |-> <<>>, notes |-> <<>>,
               subscribed |-> 0, unsubscribed |-> 0, calls |-> <<>>, threw |-> FALSE]

\* what is remembered of the operation op that has left w
Logged(op, w) ==
    [op |-> op, prev |-> currentTelemetry, afterFailure |-> failed,
     chargeState |-> w.chargeState, readFailed |-> w.readFailed, tel |-> w.tel, loaded |-> w.loaded,
     status |-> w.status, http |-> w.http, notes |-> w.notes,
     subscribed |-> w.subscribed, unsubscribed |-> w.unsubscribed,
     calls |-> w.calls, threw |-> w.threw]

\* the operation op has run and left w
Done(op, w) ==
    /\ Cardinality(w.bus) <= MaxLive
    /\ w.pending <= MaxPending
    /\ vehicleOnSubscription' = w.vehicleOnSubscription
    /\ vehicleOffSubscription' = w.vehicleOffSubscription
    /\ tickerSubscription' = w.tickerSubscription
    /\ currentTelemetry' = w.currentTelemetry
    /\ configuration' = w.configuration
    /\ bus' = w.bus
    /\ pending' = w.pending
    /\ route' = w.route
    /\ auto' = w.auto
    /\ failed' = w.failed
    /\ last' = Logged(op, w)
    /\ UNCHANGED <<plugin, store>>

(* script eval abrp.xxx() with sendlivedata2abrp.js loaded; the metric     *)
(* reads of the operation return one of R                                  *)

Send(R) ==
    /\ V2
    /\ \E start \in BOOLEAN, r \in R :
          Done(IF start THEN "send(1)" ELSE "send(0)", send(World, start, r))

Onetime(R) == V2 /\ \E r \in R : Done("onetime", onetime(World, r))

Info(R) == V2 /\ \E r \in R : Done("info", info(World, r))

AutoSend ==
    /\ V2
    /\ \E enable \in BOOLEAN :
          Done(IF enable THEN "autoSend(1)" ELSE "autoSend(0)", autoSend(World, enable))

(* script eval abrp.xxx() with abrp2.js loaded *)

StartRoute == A2 /\ Done("startRoute", abrp2_startRoute(World))

EndRoute == A2 /\ Done("endRoute", abrp2_endRoute(World))

Enable == ~V2 /\ Done("enable", enableSendBetweenVehicleOnAndOff(World))

Disable == ~V2 /\ Done("disable", disableSendBetweenVehicleOnAndOff(World))

SendTelemetry(R) ==
    /\ A2 \/ ABRP
    /\ \E forceUpdate \in BOOLEAN, r \in R :
          Done(IF forceUpdate THEN "sendTelemetry(true)" ELSE "sendTelemetry(false)",
               IF A2 THEN abrp2_sendTelemetry(World, forceUpdate, r)
                     ELSE abrp_sendTelemetry(World, forceUpdate, r))

ShowTelemetry(R) == A2 /\ \E r \in R : Done("showTelemetry", showTelemetry(World, r))

LoadConfig ==
    /\ A2 \/ ABRP
    /\ Done("loadConfig", IF A2 THEN abrp2_loadConfig(World) ELSE abrp_loadConfig(World))

(* script eval abrp.xxx() with abrp.js loaded *)

AbrpVehicleOn == ABRP /\ Done("vehicleOn", abrp_vehicleOn(World))

AbrpVehicleOff == ABRP /\ Done("vehicleOff", abrp_vehicleOff(World))

(* script eval slack.sendTestMessage() with slack.js loaded *)

SendTestMessage(R) == SLACK /\ \E r \in R : Done("sendTestMessage", sendTestMessage(World, r))

(* events of the host *)

VehicleOn(R) == \E r \in R : Done("vehicle.on", Publish(World, topics.VehicleOn, r))

\* the handlers of vehicle.off read no metric
VehicleOff == Done("vehicle.off", Publish(World, topics.VehicleOff, Unavailable))

Tick(R) ==
    \E r \in R :
        Done("ticker.60", [Publish(World, topics.Ticker, r) EXCEPT !.failed = FALSE])

\* the done or the fail callback of a request in flight runs
Completed(w) == [w EXCEPT !.pending = @ - 1]

HttpDone ==
    /\ pending > 0
    /\ \E statusCode \in HttpStatusCodes :
          Done("http.done",
               CASE V2 -> httpDone(Completed(World), statusCode)
                 [] A2 -> abrp2_httpDone(Completed(World), statusCode)
                 [] ABRP -> abrp_httpDone(Completed(World), statusCode)
                 [] SLACK -> slack_httpDone(Completed(World), statusCode))

HttpFail ==
    /\ pending > 0
    /\ Done("http.fail",
            CASE V2 -> httpFail(Completed(World))
              [] A2 -> abrp2_httpFail(Completed(World))
              [] ABRP -> abrp_httpFail(Completed(World))
              [] SLACK -> Completed(World))      \* slack.js passes no fail callback

\* config set usr abrp.xxx from the shell
ConfigSet(S) ==
    /\ \E values \in S \ {store} : store' = values
    /\ last' = Logged("config set", World)
    /\ UNCHANGED <<plugin, vehicleOnSubscription, vehicleOffSubscription,
                   tickerSubscription, currentTelemetry, configuration, bus,
                   pending, route, auto, failed>>

\* script eval abrp.resetConfig(): OvmsConfig.Delete('usr', 'abrp').  Whether the
\* host takes 'abrp' to cover the abrp.xxx values is not the script's to say:
\* they are deleted or they stay.
ResetConfig ==
    /\ V2
    /\ store' \in {store, EmptyStore}
    /\ last' = Logged("resetConfig", World)
    /\ UNCHANGED <<plugin, vehicleOnSubscription, vehicleOffSubscription,
                   tickerSubscription, currentTelemetry, configuration, bus,
                   pending, route, auto, failed>>

Next ==
    \/ Send(RouteReads)
    \/ Onetime(RouteReads)
    \/ Info(RouteReads)
    \/ ResetConfig
    \/ AutoSend
    \/ StartRoute
    \/ EndRoute
    \/ Enable
    \/ Disable
    \/ SendTelemetry(RouteReads)
    \/ ShowTelemetry(RouteReads)
    \/ LoadConfig
    \/ VehicleOn(RouteReads)
    \/ VehicleOff
    \/ Tick(RouteReads)
    \/ HttpDone
    \/ HttpFail
    \/ ConfigSet(Stores)

Spec == Init /\ [][Next]_vars

\* The sample-and-send cycle explored with every reading: the operations that
\* sample, those that start and end a route, and those that change the config.
GateNext ==
    \/ Send(MetricReads)
    \/ Onetime(MetricReads)
    \/ Info(RouteReads)
    \/ ConfigSet(Stores)
    \/ StartRoute
    \/ EndRoute
    \/ SendTelemetry(MetricReads)
    \/ Tick(MetricReads)
    \/ HttpDone
    \/ HttpFail

GateSpec == Init /\ [][GateNext]_vars

\* The four scripts side by side, each driven through its session life cycle
\* and sampled with every charge state.
Variants == Plugins \cup {"abrp", "slack"}

\* config set usr slack.url
SlackStores ==
    { EmptyStore,
      [k \in {"slack.url"} |-> "https://hooks.slack.com/services/xx/xx/xx"] }

\* the values v.c.state is read with: charging states, others, and no value
ChargeReads ==
    { BaseReading,
      [BaseReading EXCEPT !.state = "charging"],
      [BaseReading EXCEPT !.state = "topoff"],
      [BaseReading EXCEPT !.state = "done"],
      [BaseReading EXCEPT !.state = ""],
      Unavailable }

VariantInit ==
    /\ plugin \in Variants
    /\ store \in (IF SLACK THEN SlackStores ELSE Stores)
    /\ vehicleOnSubscription = Null
    /\ vehicleOffSubscription = Null
    /\ tickerSubscription = Null
    /\ currentTelemetry = Null
    /\ configuration = Null
    /\ bus = {}
    /\ pending = 0
    /\ route = "none"
    /\ auto = "none"
    /\ failed = FALSE
    /\ last = [op |-> "load", prev |-> Null, afterFailure |-> FALSE,
               chargeState |-> "", readFailed |-> FALSE, tel |-> Null, loaded |-> 0,
               status |-> 0, http |-> <<>>, notes |-> <<>>,
               subscribed |-> 0, unsubscribed |-> 0, calls |-> <<>>, threw |-> FALSE]

VariantNext ==
    \/ Send(ChargeReads)
    \/ StartRoute
    \/ EndRoute
    \/ Enable
    \/ Disable
    \/ SendTelemetry(ChargeReads)
    \/ AbrpVehicleOn
    \/ AbrpVehicleOff
    \/ SendTestMessage(ChargeReads)
    \/ VehicleOn(ChargeReads)
    \/ VehicleOff
    \/ Tick(ChargeReads)
    \/ HttpDone
    \/ HttpFail

VariantSpec == VariantInit /\ [][VariantNext]_vars

\* The config store with every choice of the keys that are set
ConfiguredValues ==
    [url |-> "http://localhost:8080/tlm", user_token |-> "token-1",
     car_model |-> "nissan:leaf:19:40"]

ConfigStores == {[k \in K |-> ConfiguredValues[k]] : K \in SUBSET DOMAIN ConfiguredValues}

ConfigReads == {BaseReading, [BaseReading EXCEPT !.soc = 514], Unavailable}

ConfigInit ==
    /\ plugin = "sendlivedata2abrp"
    /\ store \in ConfigStores
    /\ vehicleOnSubscription = Null
    /\ vehicleOffSubscription = Null
    /\ tickerSubscription = Null
    /\ currentTelemetry = Null
    /\ configuration = Null
    /\ bus = {}
    /\ pending = 0
    /\ route = "none"
    /\ auto = "none"
    /\ failed = FALSE
    /\ last = [op |-> "load", prev |-> Null, afterFailure |-> FALSE,
               chargeState |-> "", readFailed |-> FALSE, tel |-> Null, loaded |-> 0,
               status |-> 0, http |-> <<>>, notes |-> <<>>,
               subscribed |-> 0, unsubscribed |-> 0, calls |-> <<>>, threw |-> FALSE]

ConfigNext ==
    \/ Send(ConfigReads)
    \/ Onetime(ConfigReads)
    \/ Info(ConfigReads)
    \/ ResetConfig
    \/ ConfigSet(ConfigStores)
    \/ Tick(ConfigReads)
    \/ HttpDone
    \/ HttpFail

ConfigSpec == ConfigInit /\ [][ConfigNext]_vars

TypeOK ==
    /\ plugin \in Variants
    /\ pending \in 0..MaxPending
    /\ Cardinality(bus) <= MaxLive

----------------------------------------------------------------------------
(* Vocabulary of the properties *)

TickerSubscribers == Subscribers(bus, topics.Ticker)

VehicleOnSubscribers == Subscribers(bus, topics.VehicleOn)

VehicleOffSubscribers == Subscribers(bus, topics.VehicleOff)

Count(seq, x) == Cardinality({i \in 1..Len(seq) : seq[i] = x})

\* the last operation ran endRoute, and endRoute was the last function to return
EndRouteReturned == last.calls # <<>> /\ last.calls[Len(last.calls)] = "endRoute"

EnableOps == {"autoSend(1)", "enable"}

DisableOps == {"autoSend(0)", "disable"}

\* the operations that run sendTelemetry(false) and sendTelemetry(true)
NonForcedOps == {"ticker.60", "sendTelemetry(false)"}

ForcedOps == {"onetime", "send(1)", "sendTelemetry(true)"}

\* the last operation captured a sample
Sampled == last.tel # Null

Invalid(t) == t.soh + t.soc = 0

\* the fields of F in which the samples a and b differ
Diff(a, b, F) == {f \in F : a[f] # b[f]}

\* the last operation committed the captured sample and issued one request with it
Accepted ==
    /\ currentTelemetry = last.tel
    /\ Len(last.http) = 1
    /\ last.http[1].tlm = last.tel

\* the last operation issued no request and left currentTelemetry alone
Rejected ==
    /\ last.http = <<>>
    /\ currentTelemetry = last.prev

----------------------------------------------------------------------------
(* Subscriptions *)

\* C1: with sendlivedata2abrp.js, whatever was called and whatever event came,
\* the bus holds at most one subscription to the ticker made by the script, and
\* it holds one exactly when tickerSubscription is not null (and that one is
\* the handle held); a startRoute of an active route adds none.
C1_OneTickerSubscription ==
    V2 => /\ Cardinality(TickerSubscribers) <= 1
          /\ Cardinality(TickerSubscribers) = 1 <=> tickerSubscription # Null
          /\ \A s \in TickerSubscribers : s.token = tickerSubscription

\* startRoute has run on a route that was active: it subscribed to nothing
C1_Witness ==
    /\ V2
    /\ last.op = "send(1)"
    /\ last.subscribed = 0
    /\ Cardinality(TickerSubscribers) = 1
    /\ tickerSubscription # Null

\* C2: with sendlivedata2abrp.js, when endRoute has returned no ticker
\* subscription is live, and tickerSubscription, currentTelemetry and
\* configuration are null; and a tick that comes after an endRoute and before
\* the next startRoute issues no HTTP request.
C2_EndRouteLeavesNothing ==
    V2 => /\ EndRouteReturned =>
                /\ TickerSubscribers = {}
                /\ tickerSubscription = Null
                /\ currentTelemetry = Null
                /\ configuration = Null
          /\ (route = "ended" /\ last.op = "ticker.60") => last.http = <<>>

\* endRoute has ended a route that had a sample and a live ticker
C2_Witness ==
    /\ V2
    /\ last.op = "send(0)"
    /\ last.prev # Null
    /\ last.unsubscribed = 1
    /\ EndRouteReturned

\* C3: as long as the last of enable and disable was an enable (however often
\* it was repeated), the bus holds exactly one vehicle.on and exactly one
\* vehicle.off subscription of the script; a vehicle.on event then runs
\* startRoute exactly once and a vehicle.off event runs endRoute exactly once.
C3_EnableIdempotent ==
    auto = "enabled" =>
        /\ Cardinality(VehicleOnSubscribers) = 1
        /\ Cardinality(VehicleOffSubscribers) = 1
        /\ last.op = "vehicle.on" => Count(last.calls, "startRoute") = 1
        /\ last.op = "vehicle.off" => Count(last.calls, "endRoute") = 1

\* enable has been called again while enabled: it subscribed to nothing
C3_Witness ==
    /\ last.op \in EnableOps
    /\ last.subscribed = 0
    /\ Cardinality(VehicleOnSubscribers) = 1
    /\ Cardinality(VehicleOffSubscribers) = 1

\* where C4's state part holds
C4_Disabled ==
    auto = "disabled" =>
        /\ VehicleOnSubscribers = {}
        /\ VehicleOffSubscribers = {}
        /\ vehicleOnSubscription = Null
        /\ vehicleOffSubscription = Null
        /\ last.op \in {"vehicle.on", "vehicle.off"} => last.calls = <<>>

\* a disable that directly follows a disable
C4_SecondDisable ==
    (last.op \in DisableOps /\ last'.op \in DisableOps) =>
        /\ last'.unsubscribed = 0
        /\ UNCHANGED <<vehicleOnSubscription, vehicleOffSubscription, tickerSubscription,
                       currentTelemetry, configuration, bus, store, pending, route, auto,
                       failed>>

\* C4: once disable has run, and until the next enable, no vehicle.on and no
\* vehicle.off subscription of the script is live, both handles are null and
\* vehicle.on and vehicle.off events run neither startRoute nor endRoute; a
\* disable that directly follows a disable unsubscribes nothing and changes
\* no state.
C4_DisableIdempotent == []C4_Disabled /\ [][C4_SecondDisable]_vars

\* disable has undone an enable: it removed both subscriptions
C4_Witness ==
    /\ auto = "disabled"
    /\ last.op \in DisableOps
    /\ last.unsubscribed = 2
    /\ VehicleOnSubscribers = {}
    /\ VehicleOffSubscribers = {}

----------------------------------------------------------------------------
(* The change gate *)

\* C5: a sendTelemetry(false) that runs while currentTelemetry is null and
\* captures a sample, whatever the sample (one with soh + soc = 0 too),
\* commits it as currentTelemetry and issues exactly one HTTP request with it.
C5_FirstSampleSent ==
    (last.op \in NonForcedOps /\ Sampled /\ last.prev = Null) => Accepted

\* the first sample of a route was one with soh + soc = 0, and it was sent
C5_Witness ==
    /\ last.op = "ticker.60"
    /\ last.prev = Null
    /\ Sampled
    /\ Invalid(last.tel)
    /\ Accepted

\* C6: a sendTelemetry(false) whose captured sample equals currentTelemetry in
\* every watched field (the same sample again, in particular) issues no HTTP
\* request and leaves currentTelemetry as it was.
C6_IdenticalNotResent ==
    (/\ last.op \in NonForcedOps
     /\ Sampled
     /\ last.prev # Null
     /\ Diff(last.prev, last.tel, Watched) = {}) => Rejected

\* a tick has captured the very sample that was sent before
C6_Witness ==
    /\ last.op = "ticker.60"
    /\ Sampled
    /\ last.tel = last.prev
    /\ ~Invalid(last.tel)
    /\ last.http = <<>>

\* C7 as stated: a captured sample with soh + soc = 0 is rejected by a
\* sendTelemetry(false) whatever the previous sample, null included.
C7_InvalidNeverSent ==
    (last.op \in NonForcedOps /\ Sampled /\ Invalid(last.tel)) => Rejected

\* C7, amended: a captured sample with soh + soc = 0 is rejected by a
\* sendTelemetry(false) whatever the previous sample, as long as there is one:
\* no HTTP request is issued and currentTelemetry is not replaced.
C7_InvalidNotSentAfterFirst ==
    (last.op \in NonForcedOps /\ Sampled /\ Invalid(last.tel) /\ last.prev # Null)
        => Rejected

\* a tick has captured a sample with soh + soc = 0 after a valid one
C7_Witness ==
    /\ last.op = "ticker.60"
    /\ Sampled
    /\ Invalid(last.tel)
    /\ last.prev # Null
    /\ ~Invalid(last.prev)
    /\ currentTelemetry = last.prev
    /\ last.http = <<>>

\* C8: a sendTelemetry(false) whose captured sample differs from the previous
\* one, but in no watched field (only in utc, speed, car_model, voltage,
\* current or power), issues no HTTP request and currentTelemetry stays the
\* previous sample.
C8_UnwatchedIgnored ==
    (/\ last.op \in NonForcedOps
     /\ Sampled
     /\ last.prev # Null
     /\ Diff(last.prev, last.tel, Watched) = {}
     /\ Diff(last.prev, last.tel, Unwatched) # {})
        => (last.http = <<>> /\ currentTelemetry = last.prev /\ currentTelemetry # last.tel)

\* a tick has captured a sample that differs from the previous one in the speed only
C8_Witness ==
    /\ last.op = "ticker.60"
    /\ Sampled
    /\ last.prev # Null
    /\ Diff(last.prev, last.tel, TelemetryFields) = {"speed"}
    /\ ~Invalid(last.tel)
    /\ currentTelemetry = last.prev

\* C9 as stated: a captured sample that differs from the previous one in
\* exactly one watched field is accepted by a sendTelemetry(false).
C9_OneWatchedChangeSent ==
    (/\ last.op \in NonForcedOps
     /\ Sampled
     /\ last.prev # Null
     /\ Cardinality(Diff(last.prev, last.tel, Watched)) = 1) => Accepted

\* C9, amended: a captured sample with soh + soc # 0 that differs from the
\* previous one in exactly one watched field is accepted by a
\* sendTelemetry(false): it becomes currentTelemetry and one HTTP request
\* carries it.
C9_OneValidWatchedChangeSent ==
    (/\ last.op \in NonForcedOps
     /\ Sampled
     /\ last.prev # Null
     /\ ~Invalid(last.tel)
     /\ Cardinality(Diff(last.prev, last.tel, Watched)) = 1) => Accepted

\* a tick has captured a sample that differs from the previous one in ext_temp only
C9_Witness ==
    /\ last.op = "ticker.60"
    /\ Sampled
    /\ last.prev # Null
    /\ Diff(last.prev, last.tel, TelemetryFields) = {"ext_temp"}
    /\ Accepted

\* C10: a sendTelemetry(true) that captures a sample (onetime(), the send in
\* startRoute, sendTelemetry(true) of abrp2) commits it as currentTelemetry and
\* issues one HTTP request with it, whatever the previous and the captured
\* sample: one with soh + soc = 0 and one equal to the previous sample too.
C10_ForceAlwaysSends ==
    (last.op \in ForcedOps /\ Sampled) => Accepted

\* onetime() has sent a sample with soh + soc = 0 that equals the previous one
C10_Witness ==
    /\ last.op = "onetime"
    /\ Sampled
    /\ last.tel = last.prev
    /\ Invalid(last.tel)
    /\ Accepted

----------------------------------------------------------------------------
(* HTTP callbacks *)

HttpOps == {"http.done", "http.fail"}

ErrorNote(context) == [severity |-> "error", message |-> context]

InfoNote(message) == [severity |-> "info", message |-> message]

\* what a callback of updateAbrp has done when it returns
C11_CallbackLog ==
    (V2 /\ last.op \in HttpOps) =>
        /\ last.subscribed = 0
        /\ last.unsubscribed = 0
        /\ last.http = <<>>
        /\ last.calls = <<>>
        /\ ~last.threw
        /\ last.notes = IF last.op = "http.fail" THEN <<ErrorNote("HTTP request")>>
                        ELSE IF last.status # 200 THEN <<ErrorNote("Http request")>>
                        ELSE <<>>

\* what a callback of updateAbrp leaves alone
C11_CallbackFrame ==
    (V2 /\ last'.op \in HttpOps) =>
        UNCHANGED <<tickerSubscription, vehicleOnSubscription, vehicleOffSubscription,
                    currentTelemetry, configuration, bus>>

\* C11: with sendlivedata2abrp.js, a done or fail callback of a request,
\* whenever it is delivered (after further ticks, after endRoute), leaves
\* the three handles, currentTelemetry, configuration and the bus as they
\* were and neither subscribes nor unsubscribes; it raises one error
\* notification on fail or on a status other than 200, and nothing otherwise.
C11_CallbackChangesNothing == []C11_CallbackLog /\ [][C11_CallbackFrame]_vars

\* the fail callback of a request has come after the route was ended
C11_Witness ==
    /\ V2
    /\ last.op = "http.fail"
    /\ route = "ended"
    /\ last.notes = <<ErrorNote("HTTP request")>>
    /\ tickerSubscription = Null

\* a tick has come to an active route of sendlivedata2abrp.js, the first tick
\* since a callback reported a failed request
TickAfterFailure ==
    /\ V2
    /\ last.op = "ticker.60"
    /\ last.afterFailure
    /\ tickerSubscription # Null

\* C12 as stated: the first tick after a failed request issues a new HTTP
\* request with the sample it captures.
C12_TickAfterFailureSends == (TickAfterFailure /\ Sampled) => Accepted

\* C12, amended: the first tick after a failed request runs
\* sendTelemetry(false) once, as any tick does; the sample it captures is
\* sent if there was no previous sample or if it is valid and differs from
\* the previous sample (the one of the failed request included) in a watched
\* field, and is dropped otherwise.
C12_TickAfterFailureSamples ==
    TickAfterFailure =>
        /\ last.calls = <<"sendTelemetry">>
        /\ Sampled =>
              IF \/ last.prev = Null
                 \/ /\ ~Invalid(last.tel)
                    /\ Diff(last.prev, last.tel, Watched) # {}
              THEN Accepted
              ELSE Rejected

\* after a failed request the tick has sent a sample that had changed
C12_Witness ==
    /\ TickAfterFailure
    /\ Sampled
    /\ last.prev # Null
    /\ Diff(last.prev, last.tel, Watched) # {}
    /\ Accepted

----------------------------------------------------------------------------
(* The route session *)

\* the last operation ran startRoute
StartRouteRan == "startRoute" \in Range(last.calls)

\* C13: with sendlivedata2abrp.js the config store is read at most once in a
\* route session: startRoute reads it, and no tick, onetime() or info() that
\* follows before the next endRoute reads it again (so all requests and
\* samples of the session use one snapshot); when endRoute has returned,
\* configuration is null.
C13_ConfigReadOncePerSession ==
    V2 => /\ (route = "started" /\ ~StartRouteRan) => last.loaded = 0
          /\ EndRouteReturned => configuration = Null

\* a tick of sendlivedata2abrp.js during which a metric read threw
TickReadFailed(l) == V2 /\ l.op = "ticker.60" /\ l.readFailed

\* what such a tick has done when the handler returns
C14_ReadFailureLog ==
    TickReadFailed(last) =>
        /\ ~last.threw
        /\ last.http = <<>>
        /\ last.notes = <<ErrorNote("Send telemetry")>>
        /\ last.subscribed = 0
        /\ last.unsubscribed = 0
        /\ currentTelemetry = last.prev
        /\ tickerSubscription # Null
        /\ \E s \in TickerSubscribers : s.token = tickerSubscription

\* what such a tick leaves alone, and what the tick after it does
C14_ReadFailureFrame ==
    /\ TickReadFailed(last') =>
          UNCHANGED <<tickerSubscription, currentTelemetry, vehicleOnSubscription,
                      vehicleOffSubscription, bus>>
    /\ (TickReadFailed(last) /\ last'.op = "ticker.60") =>
          last'.calls = <<"sendTelemetry">>

\* C14: with sendlivedata2abrp.js, a metric read that throws during a tick
\* does not leave the tick handler; the tick issues no HTTP request, raises
\* one error notification, and leaves tickerSubscription, currentTelemetry,
\* the vehicle.on and vehicle.off handles and the bus as they were: the
\* route stays active and the next tick samples again.
C14_ReadFailureNotFatal == []C14_ReadFailureLog /\ [][C14_ReadFailureFrame]_vars

\* a metric read has thrown during a tick of a route that had sent a sample
C14_Witness ==
    /\ TickReadFailed(last)
    /\ currentTelemetry # Null
    /\ last.notes = <<ErrorNote("Send telemetry")>>
    /\ tickerSubscription # Null

\* script eval abrp.send(0) and abrp.endRoute()
EndOps == {"send(0)", "endRoute"}

\* endRoute() runs directly after an endRoute(), or as the first operation
C15_SecondEndRoute ==
    (last'.op \in EndOps /\ (last.op \in EndOps \/ last.op = "load")) =>
        /\ last'.unsubscribed = 0
        /\ last'.subscribed = 0
        /\ last'.http = <<>>
        /\ last'.notes = <<InfoNote("ABRP route ended")>>
        /\ ~last'.threw
        /\ UNCHANGED <<tickerSubscription, currentTelemetry, configuration, bus,
                       vehicleOnSubscription, vehicleOffSubscription, pending>>

\* C15: endRoute() is idempotent, in sendlivedata2abrp.js and in abrp2.js: an
\* endRoute() directly after an endRoute(), or in the initial state, calls no
\* unsubscribe, changes none of tickerSubscription, currentTelemetry,
\* configuration and the bus, and only raises 'ABRP route ended' again.
C15_EndRouteIdempotent == [][C15_SecondEndRoute]_vars

\* an endRoute() that found no ticker handle has returned
C15_Witness ==
    /\ last.op \in EndOps
    /\ last.unsubscribed = 0
    /\ last.notes = <<InfoNote("ABRP route ended")>>
    /\ route = "ended"
    /\ tickerSubscription = Null

\* startRoute of sendlivedata2abrp.js has run on a route whose ticker
\* subscription was live
Reentered == V2 /\ StartRouteRan /\ last.subscribed = 0

\* C16 as stated: a startRoute() of an active route issues no HTTP request
\* and leaves currentTelemetry as it was.
C16_ReentrantStartIsNoOp == Reentered => Rejected

C16_ReentrantLog ==
    Reentered =>
        /\ tickerSubscription # Null
        /\ last.unsubscribed = 0
        /\ last.loaded = 1
        /\ configuration = ObjectAssign(defaultConfiguration, store)
        /\ IF last.readFailed
           THEN /\ Rejected
                /\ Count(last.notes, ErrorNote("Send telemetry")) = 1
           ELSE /\ Sampled
                /\ Accepted
                /\ Count(last.notes, ErrorNote("Send telemetry")) = 0

C16_ReentrantFrame ==
    (V2 /\ tickerSubscription # Null /\ StartRouteRan') =>
        UNCHANGED <<tickerSubscription, bus, vehicleOnSubscription, vehicleOffSubscription>>

\* C16 (amended): a startRoute() of sendlivedata2abrp.js on an active route
\* leaves tickerSubscription, the vehicle handles and the bus unchanged and
\* reloads the configuration, and it also samples and force-sends: with
\* readable metrics it issues one HTTP request and commits the new sample as
\* currentTelemetry; with an unreadable metric it issues none and raises an
\* error notification.
C16_ReentrantStartResends == []C16_ReentrantLog /\ [][C16_ReentrantFrame]_vars

\* a startRoute() of an active route has replaced the sample sent before
C16_Witness ==
    /\ Reentered
    /\ last.prev # Null
    /\ currentTelemetry # last.prev
    /\ Len(last.http) = 1

\* startRoute of sendlivedata2abrp.js has run and its metric reads succeeded
StartedReadable(l) == V2 /\ "startRoute" \in Range(l.calls) /\ ~l.readFailed

C17_StartLog ==
    StartedReadable(last) =>
        LET fresh == ObjectAssign(defaultConfiguration, store)
        IN  /\ Sampled
            /\ Accepted
            /\ last.loaded = 1
            /\ configuration = fresh
            /\ last.tel.car_model = fresh.car_model
            /\ last.http[1].url = fresh.url
            /\ last.http[1].token = fresh.user_token
            /\ tickerSubscription # Null
            /\ \E s \in TickerSubscribers : s.token = tickerSubscription

C17_FirstTick ==
    (StartedReadable(last) /\ last'.op = "ticker.60" /\ last'.http # <<>>) =>
        /\ last'.tel # Null
        /\ Diff(last.tel, last'.tel, Watched) # {}

C18_NoTickerAfterEnd ==
    (A2 \/ SLACK) =>
        /\ Cardinality(TickerSubscribers) <= 1
        /\ route = "ended" => TickerSubscribers = {}
        /\ (route = "ended" /\ last.op = "ticker.60") => last.calls = <<>>

\* the configuration sendlivedata2abrp.js works with when the store holds values
Effective(values) ==
    [k \in DOMAIN defaultConfiguration |->
        IF k \in DOMAIN values THEN values[k] ELSE defaultConfiguration[k]]

\* C19: in sendlivedata2abrp.js, whichever of url, user_token and car_model
\* the config store lacks, an operation that loads the configuration gets
\* the stored value for each key that is set and the value of
\* defaultConfiguration for each that is not; it throws nothing and raises
\* no error notification unless a metric read failed, and a request it
\* issues carries the url, token and car model of that configuration.
C19_MissingConfigNotFatal ==
    (V2 /\ last.loaded > 0) =>
        /\ configuration = Effective(store)
        /\ ~last.readFailed =>
              /\ ~last.threw
              /\ \A i \in 1..Len(last.notes) : last.notes[i].severity # "error"
        /\ (last.op \in ForcedOps /\ Sampled) => Len(last.http) = 1
        /\ \A i \in 1..Len(last.http) :
              /\ last.http[i].url = Effective(store).url
              /\ last.http[i].token = Effective(store).user_token
              /\ last.http[i].tlm.car_model = Effective(store).car_model

\* a sample has been sent with a store that holds the url alone
C19_Witness ==
    /\ V2
    /\ store = [k \in {"url"} |-> ConfiguredValues.url]
    /\ last.loaded > 0
    /\ Len(last.http) = 1
    /\ last.http[1].url = ConfiguredValues.url
    /\ last.http[1].token = defaultConfiguration.user_token
    /\ last.http[1].tlm.car_model = defaultConfiguration.car_model

\* C20: in each of the four scripts, whatever v.c.state was read as, the
\* is_charging field of the sample captured is 1 if the state is 'charging'
\* or 'topoff' and 0 for every other value, the empty one included.
C20_IsChargingBySetMembership ==
    Sampled =>
        /\ last.tel.is_charging = (IF last.chargeState \in {"charging", "topoff"} THEN 1 ELSE 0)
        /\ last.chargeState \in {r.state : r \in ChargeReads \ {Unavailable}}

\* a sample has been captured while the car was topping off
C20_Witness ==
    /\ Sampled
    /\ last.chargeState = "topoff"
    /\ last.tel.is_charging = 1

\* a step of sendlivedata2abrp.js that gives currentTelemetry a new non-null
\* value ran sendTelemetry, which captured that value and issued one request
\* with it; a step that issues requests leaves the payload of the last one
\* in currentTelemetry; a tick that issues none leaves currentTelemetry alone
C21_CommitStep ==
    V2 =>
        /\ (currentTelemetry' # Null /\ currentTelemetry' # currentTelemetry) =>
              /\ "sendTelemetry" \in Range(last'.calls)
              /\ currentTelemetry' = last'.tel
              /\ Len(last'.http) = 1
              /\ last'.http[1].tlm = currentTelemetry'
        /\ (last' # last /\ last'.http # <<>>) =>
              currentTelemetry' = last'.http[Len(last'.http)].tlm
        /\ (last' # last /\ last'.op = "ticker.60" /\ last'.http = <<>>) =>
              UNCHANGED currentTelemetry

\* C21: in sendlivedata2abrp.js currentTelemetry gets a non-null value only in
\* a sendTelemetry step that accepts the sample and issues an HTTP request
\* carrying that sample, and every request issued carries the sample just
\* committed, so that a non-null currentTelemetry is the payload of the most
\* recently issued request; a rejected tick leaves currentTelemetry unchanged.
C21_CommitOnlyWhenSent == [][C21_CommitStep]_vars

\* a tick has captured a sample that differs from the one held and has
\* rejected it
C21_Witness ==
    /\ V2
    /\ last.op = "ticker.60"
    /\ Sampled
    /\ Rejected
    /\ currentTelemetry # Null
    /\ last.tel # currentTelemetry

\* the last operation raised an error notification
ErrorRaised == \E i \in 1..Len(last.notes) : last.notes[i].severity = "error"

\* C22 as stated: a startRoute() of sendlivedata2abrp.js during which an
\* error notification was raised raises no 'ABRP route started'.
C22_StartedOnlyOnSuccess ==
    (V2 /\ StartRouteRan /\ ErrorRaised) =>
        InfoNote("ABRP route started") \notin Range(last.notes)

\* C22 (amended): every startRoute() of sendlivedata2abrp.js raises 'ABRP
\* route started' once, as its last notification, and leaves the ticker
\* subscribed; when a metric read threw inside its sendTelemetry(true), the
\* error notification 'Send telemetry' is raised before it, and that is the
\* only error startRoute() comes with.
C22_StartedAlsoAfterReadError ==
    (V2 /\ StartRouteRan) =>
        /\ Count(last.notes, InfoNote("ABRP route started")) = 1
        /\ last.notes[Len(last.notes)] = InfoNote("ABRP route started")
        /\ tickerSubscription # Null
        /\ \E s \in TickerSubscribers : s.token = tickerSubscription
        /\ ErrorRaised <=> last.readFailed
        /\ \A i \in 1..Len(last.notes) :
              last.notes[i].severity = "error" => last.notes[i] = ErrorNote("Send telemetry")
        /\ Count(last.notes, ErrorNote("Send telemetry")) <= 1

\* a startRoute() whose metric read threw has raised the error and then
\* 'ABRP route started'
C22_Witness ==
    /\ V2
    /\ StartRouteRan
    /\ last.readFailed
    /\ last.notes = <<ErrorNote("Send telemetry"), InfoNote("ABRP route started")>>
    /\ tickerSubscription # Null

\* C23 as stated: when a startRoute() of sendlivedata2abrp.js has returned,
\* currentTelemetry is null or the sample captured in that call, whether or
\* not its metric read succeeded.
C23_StartDiscardsSample ==
    (V2 /\ StartRouteRan) =>
        \/ currentTelemetry = Null
        \/ Sampled /\ currentTelemetry = last.tel

\* the function of abrp.js that returned last in the last operation
Returned(fn) == ABRP /\ last.calls # <<>> /\ last.calls[Len(last.calls)] = fn

\* C24 as stated: with abrp.js, when vehicleOn has returned the ticker topic
\* is subscribed and tickerSubscription holds the handle, and when
\* vehicleOff has returned no ticker subscription is on the bus and
\* tickerSubscription is null.
C24_VehicleOnOffMoveSession ==
    /\ Returned("vehicleOn") =>
          /\ tickerSubscription # Null
          /\ \E s \in TickerSubscribers : s.token = tickerSubscription
    /\ Returned("vehicleOff") =>
          /\ tickerSubscription = Null
          /\ TickerSubscribers = {}

\* the route of sendlivedata2abrp.js is active and the auto trigger was
\* disabled last
ActiveDisabled == V2 /\ auto = "disabled" /\ tickerSubscription # Null

\* autoSend(0) touches the vehicle.on and vehicle.off subscriptions only
C25_DisableFrame ==
    (V2 /\ last'.op = "autoSend(0)") =>
        /\ UNCHANGED <<tickerSubscription, currentTelemetry, configuration, route, pending>>
        /\ Subscribers(bus', topics.Ticker) = TickerSubscribers
        /\ Subscribers(bus', topics.VehicleOn) = {}
        /\ Subscribers(bus', topics.VehicleOff) = {}
        /\ last'.http = <<>>

\* after it a tick still runs sendTelemetry, a vehicle.off event runs nothing,
\* and the ticker handle is given up by send(0) alone
C25_AfterDisable ==
    ActiveDisabled =>
        /\ last'.op = "ticker.60" => last'.calls = <<"sendTelemetry">>
        /\ (last'.op = "vehicle.off" /\ last' # last) =>
              /\ last'.calls = <<>>
              /\ UNCHANGED <<tickerSubscription, currentTelemetry, configuration, bus, route>>
        /\ tickerSubscription' = Null => last'.op = "send(0)"

\* C25: with sendlivedata2abrp.js, autoSend(0) on an active route leaves
\* tickerSubscription, currentTelemetry, configuration and the ticker
\* subscription on the bus unchanged and removes the vehicle.on and
\* vehicle.off subscriptions; afterwards ticks keep running sendTelemetry, a
\* vehicle.off event no longer ends the route, and only send(0) makes
\* tickerSubscription null.
C25_DisableKeepsRoute == [][C25_DisableFrame /\ C25_AfterDisable]_vars

\* the auto trigger has been disabled on an active route that had sent a sample
C25_Witness ==
    /\ ActiveDisabled
    /\ last.op = "autoSend(0)"
    /\ last.unsubscribed = 2
    /\ currentTelemetry # Null
    /\ route = "started"

====
